---- MODULE Spec2Model ----
(***************************************************************************)
(* A model of testing-with-gomock: the Doer capability and its reference   *)
(* implementation (doer/doer.go), the consumer User (user/user.go), the    *)
(* entry program (main.go), the custom argument matcher (match/oftype.go)  *)
(* and the substitute capability (the generated mock and its controller)   *)
(* that the README's tests drive.                                          *)
(*                                                                         *)
(* Go strings are modelled as sequences of one-character strings, so that  *)
(* formatting (strconv.Itoa, fmt.Errorf, fmt.Printf) is computed and not   *)
(* assumed.                                                                *)
(***************************************************************************)
EXTENDS Integers, Sequences, FiniteSets

VARIABLES
    probe,      \* the last direct call of a pure operation, with its result
    mainPc,     \* main(): the statement to execute next
    mainOut,    \* main(): the lines written to standard output so far
    mainDoer,   \* main(): the local variable doer
    mainUser,   \* main(): the local variable user
    mainErr,    \* main(): the local variable err
    user,       \* test: the User under test (NoUser before it is built)
    wired,      \* test: the capability the User was constructed with (history)
    exps,       \* test: the mock controller's declared expectations, in order
    failed,     \* test: the mock failed the test at a call (t.Fatalf)
    finished,   \* test: the controller's Finish has run
    report,     \* test: the expectations Finish reported as not met
    stdout,     \* test: the lines written to standard output
    nalloc,     \* test: number of error values the real capability allocated
    ncalls,     \* test: number of calls made so far (bounded by MaxCalls)
    last        \* test: the last call, the invocations it made, its return

vars == <<probe, mainPc, mainOut, mainDoer, mainUser, mainErr, user, wired,
          exps, failed, finished, report, stdout, nalloc, ncalls, last>>

mainVars == <<mainPc, mainOut, mainDoer, mainUser, mainErr>>
testVars == <<user, wired, exps, failed, finished, report, stdout, nalloc,
              ncalls, last>>

(***************************************************************************)
(* Bounds of the model.                                                    *)
(***************************************************************************)
\* direct calls of DoSomething draw n from -MaxN..MaxN (and UseCount)
MaxN == 12
\* direct calls of DoSomething draw str from the strings over Alphabet of at
\* most this length (and the labels the repository uses)
MaxLen == 3
\* a test makes at most this many calls (Use, or DoSomething on the mock)
MaxCalls == 3

(***************************************************************************)
(* String literals of the source.                                          *)
(***************************************************************************)
\* user.go:10, the count Use passes
UseCount == 123
\* user.go:10, the label Use passes: "Hello GoMock"
UseLabel == <<"H", "e", "l", "l", "o", " ", "G", "o", "M", "o", "c", "k">>
\* doer.go:25, the format "error: %s != %d" cut at its verbs
ErrPrefix == <<"e", "r", "r", "o", "r", ":", " ">>
ErrInfix == <<" ", "!", "=", " ">>
\* doer.go:21, the format "DoSomething %s %d times\n" cut at its verbs
DiagPrefix == <<"D", "o", "S", "o", "m", "e", "t", "h", "i", "n", "g", " ">>
DiagSuffix == <<" ", "t", "i", "m", "e", "s">>
\* main.go:10 and main.go:20
StartLine == <<"s", "t", "a", "r", "t">>
EndLine == <<"e", "n", "d">>

(***************************************************************************)
(* Outcomes: Go's error values.  An error value is a reference, so it      *)
(* carries the address of the object it points to besides its message.     *)
(***************************************************************************)
NilErr == [kind |-> "nil", addr |-> <<"nil", 0>>, msg |-> <<>>]
ErrorAt(a, m) == [kind |-> "error", addr |-> a, msg |-> m]

(***************************************************************************)
(* strconv.Itoa (doer.go:22): base-10 digits by repeated division, most    *)
(* significant first, with a leading "-" for a negative number.            *)
(***************************************************************************)
DigitChar(d) ==
    CASE d = 0 -> "0" [] d = 1 -> "1" [] d = 2 -> "2" [] d = 3 -> "3"
      [] d = 4 -> "4" [] d = 5 -> "5" [] d = 6 -> "6" [] d = 7 -> "7"
      [] d = 8 -> "8" [] d = 9 -> "9"

RECURSIVE FormatBits(_)
FormatBits(u) ==
    IF u < 10 THEN <<DigitChar(u)>>
    ELSE FormatBits(u \div 10) \o <<DigitChar(u % 10)>>

\* Itoa as it would be if the sign were dropped
ItoaUnsigned(n) == FormatBits(IF n < 0 THEN -n ELSE n)

Itoa(n) == IF n < 0 THEN <<"-">> \o FormatBits(-n) ELSE FormatBits(n)

(***************************************************************************)
(* fmt.Errorf("error: %s != %d", str, n) (doer.go:25): the message.        *)
(***************************************************************************)
\* Errorf as it would be with its two arguments in the other order
ErrorfCountFirst(str, n) == ErrPrefix \o Itoa(n) \o ErrInfix \o str

Errorf(str, n) == ErrPrefix \o str \o ErrInfix \o Itoa(n)

\* fmt.Printf("DoSomething %s %d times\n", str, n) (doer.go:21): the line
Printf(str, n) == DiagPrefix \o str \o <<" ">> \o Itoa(n) \o DiagSuffix

(***************************************************************************)
(* doerImpl.DoSomething (doer.go:20-26).  a is the address the error value *)
(* is allocated at when the call fails.  The result is the line printed    *)
(* and the error returned.                                                 *)
(***************************************************************************)
DoSomething(n, str, a) ==
    [printed |-> Printf(str, n),
     err     |-> IF Itoa(n) = str THEN NilErr ELSE ErrorAt(a, Errorf(str, n))]

(***************************************************************************)
(* Go values passed as interface{}: the dynamic type's name and the value. *)
(* NilValue is the nil interface, which has no dynamic type.               *)
(***************************************************************************)
IntVal(n) == [type |-> "int", i |-> n, s |-> <<>>]
StrVal(str) == [type |-> "string", i |-> 0, s |-> str]
BoolVal(b) == [type |-> "bool", i |-> IF b THEN 1 ELSE 0, s |-> <<>>]
ErrVal(a) == [type |-> "*errors.errorString", i |-> a, s |-> <<>>]
NilValue == [type |-> "<nil>", i |-> 0, s |-> <<>>]

\* reflect.DeepEqual on these values: same dynamic type, same value
DeepEqual(x, y) == x.type = y.type /\ x.i = y.i /\ x.s = y.s

(***************************************************************************)
(* match/oftype.go: the matcher on an argument's type name.                *)
(***************************************************************************)
\* NewOfType (oftype.go:11-13)
NewOfType(t) == [t |-> t]

\* reflect.TypeOf(x): the nil Type for the nil interface
NilType == "<nil Type>"
TypeOf(x) == IF x.type = NilValue.type THEN NilType ELSE x.type

\* ofType.Matches (oftype.go:15-17): String() is called on the Type that
\* reflect.TypeOf returns; on the nil Type the call dereferences nil and the
\* goroutine panics, so no boolean is returned.
Matches(o, x) ==
    IF TypeOf(x) = NilType
    THEN [panicked |-> TRUE, value |-> FALSE]
    ELSE [panicked |-> FALSE, value |-> TypeOf(x) = o.t]

(***************************************************************************)
(* The substitute capability: the generated MockDoer and its controller.   *)
(* An expectation holds a matcher per argument, the count of calls it      *)
(* accepts (min..max), the outcome to return, the expectations that must   *)
(* be satisfied before it is eligible, and the calls matched to it so far. *)
(***************************************************************************)
\* gomock.Eq(v), gomock.Any(), and the custom matcher match.OfType(t)
Eq(v) == [kind |-> "eq", v |-> v, o |-> NewOfType("")]
Any == [kind |-> "any", v |-> NilValue, o |-> NewOfType("")]
OfType(t) == [kind |-> "ofType", v |-> NilValue, o |-> NewOfType(t)]

\* whether argument x satisfies matcher m
MatcherAccepts(m, x) ==
    CASE m.kind = "eq" -> DeepEqual(m.v, x)
      [] m.kind = "any" -> TRUE
      [] m.kind = "ofType" ->
            LET r == Matches(m.o, x) IN ~r.panicked /\ r.value

\* every positional argument satisfies its matcher
ArgsMatch(e, n, str) ==
    MatcherAccepts(e.nm, IntVal(n)) /\ MatcherAccepts(e.sm, StrVal(str))

\* an expectation is satisfied once it was matched at least min times,
\* exhausted once it was matched max times
Satisfied(e) == e.calls >= e.min
Exhausted(e) == e.calls >= e.max

\* order-eligible as it would be if prerequisites were not checked
OrderEligibleAlways(es, i) == TRUE

\* order-eligible: every expectation it was declared After is satisfied
OrderEligible(es, i) == \A j \in es[i].after : Satisfied(es[j])

\* the declared, not-yet-exhausted, order-eligible expectations whose
\* matchers all succeed on the call
Candidates(es, n, str) ==
    {i \in 1..Len(es) : /\ ~Exhausted(es[i])
                        /\ OrderEligible(es, i)
                        /\ ArgsMatch(es[i], n, str)}

\* the first declared candidate
FirstOf(S) == CHOOSE i \in S : \A j \in S : i <= j

Aborted == [kind |-> "abort", addr |-> <<"nil", 0>>, msg |-> <<>>]

\* the mock as it would be if an unmatched call were answered with success
MockDoSomethingLenient(w, n, str) ==
    LET c == Candidates(w.exps, n, str) IN
    IF c = {}
    THEN [w |-> w, ret |-> NilErr]
    ELSE [w   |-> [w EXCEPT !.exps[FirstOf(c)].calls = @ + 1],
          ret |-> w.exps[FirstOf(c)].ret]

\* MockDoer.DoSomething: the call is matched to the first candidate, which
\* counts it and supplies the outcome; with no candidate the test fails at
\* once (t.Fatalf ends the test's goroutine: the call does not return)
MockDoSomething(w, n, str) ==
    LET c == Candidates(w.exps, n, str) IN
    IF c = {}
    THEN [w |-> [w EXCEPT !.failed = TRUE], ret |-> Aborted]
    ELSE [w   |-> [w EXCEPT !.exps[FirstOf(c)].calls = @ + 1],
          ret |-> w.exps[FirstOf(c)].ret]

\* Controller.Finish: the expectations whose count of matched calls is
\* outside the declared count
Unmet(es) ==
    {i \in 1..Len(es) : es[i].calls < es[i].min \/ es[i].calls > es[i].max}

(***************************************************************************)
(* The capabilities a User can hold, and the call through the interface.   *)
(* w is the part of the state a call can change: the controller's          *)
(* expectations and failure flag, standard output, the error allocator.    *)
(***************************************************************************)
NoRef == "none"
RealDoer == "doerImpl"
MockDoer == "MockDoer"

\* doer.NewDoer (doer.go:16-18)
NewDoer == RealDoer

\* the call d.DoSomething(n, str) through the Doer interface (doer.go:10-12)
Invoke(d, n, str, w) ==
    IF d = RealDoer
    THEN LET r == DoSomething(n, str, <<"heap", w.nalloc + 1>>) IN
         [w   |-> [w EXCEPT !.stdout = Append(@, r.printed),
                            !.nalloc = IF r.err.kind = "error" THEN @ + 1 ELSE @],
          ret |-> r.err,
          inv |-> [recv |-> d, n |-> n, str |-> str, ret |-> r.err]]
    ELSE LET r == MockDoSomething(w, n, str) IN
         [w   |-> r.w,
          ret |-> r.ret,
          inv |-> [recv |-> d, n |-> n, str |-> str, ret |-> r.ret]]

(***************************************************************************)
(* user/user.go                                                            *)
(***************************************************************************)
NoUser == [Doer |-> NoRef]

\* NewUser (user.go:13-15)
NewUser(d) == [Doer |-> d]

\* Use as it would be if it wrapped a failure in an error of its own
UseWrapping(u, w) ==
    LET r == Invoke(u.Doer, UseCount, UseLabel, w) IN
    [w |-> r.w, u |-> u, trace |-> <<r.inv>>,
     ret |-> IF r.ret.kind = "error"
             THEN ErrorAt(<<"heap", r.w.nalloc + 1>>,
                          <<"u", "s", "e", ":", " ">> \o r.ret.msg)
             ELSE r.ret]

\* Use as it would be if it called the capability again after a failure
UseRetrying(u, w) ==
    LET r == Invoke(u.Doer, UseCount, UseLabel, w) IN
    IF r.ret.kind = "error"
    THEN LET r2 == Invoke(u.Doer, UseCount, UseLabel, r.w) IN
         [w |-> r2.w, u |-> u, trace |-> <<r.inv, r2.inv>>, ret |-> r2.ret]
    ELSE [w |-> r.w, u |-> u, trace |-> <<r.inv>>, ret |-> r.ret]

\* Use as it would be if it fell back to the real capability after a failure
UseRebinding(u, w) ==
    LET r == Invoke(u.Doer, UseCount, UseLabel, w) IN
    [w |-> r.w,
     u |-> IF r.ret.kind = "error" THEN [Doer |-> NewDoer] ELSE u,
     trace |-> <<r.inv>>, ret |-> r.ret]

\* Use as it would be if it passed the label without its second word
UseShortLabel(u, w) ==
    LET r == Invoke(u.Doer, UseCount, SubSeq(UseLabel, 1, 5), w) IN
    [w |-> r.w, u |-> u, trace |-> <<r.inv>>, ret |-> r.ret]

\* User.Use (user.go:9-11): one call of the held capability, its outcome
\* returned as it is.  The result is the state after, the User after, the
\* invocations made and the value returned.
Use(u, w) ==
    LET r == Invoke(u.Doer, UseCount, UseLabel, w) IN
    [w |-> r.w, u |-> u, trace |-> <<r.inv>>, ret |-> r.ret]

(***************************************************************************)
(* Inputs.                                                                 *)
(***************************************************************************)
\* the characters direct calls build labels from
Alphabet == {"-", "0", "1", "2"}

RECURSIVE StringsUpTo(_)
StringsUpTo(k) ==
    IF k = 0 THEN {<<>>}
    ELSE LET shorter == StringsUpTo(k - 1) IN
         shorter \cup {Append(str, c) : str \in shorter, c \in Alphabet}

\* labels of the README's calls: "first this", "then this", "or this"
FirstThis == <<"f", "i", "r", "s", "t", " ", "t", "h", "i", "s">>
ThenThis == <<"t", "h", "e", "n", " ", "t", "h", "i", "s">>
OrThis == <<"o", "r", " ", "t", "h", "i", "s">>

\* the counts and labels direct calls of the real capability draw from
Counts == (-MaxN .. MaxN) \cup {UseCount}
Labels ==
    StringsUpTo(MaxLen) \cup {UseLabel, <<"1", "2", "3">>, <<"1", "2", "4">>}

\* the type names and argument values direct calls of the matcher draw from
TypeNames == {"string", "int", "bool", "*errors.errorString"}
Values ==
    {NilValue, BoolVal(TRUE), BoolVal(FALSE), ErrVal(1)}
        \cup {IntVal(n) : n \in {0, 1, UseCount}}
        \cup {StrVal(str) : str \in {<<>>, UseLabel, <<"1", "2", "3">>}}

\* errors.New("dummy error") of the README's test: a value of the test's own
DummyError ==
    ErrorAt(<<"test", 1>>, <<"d", "u", "m", "m", "y", " ", "e", "r", "r", "o", "r">>)

\* the expectations a test declares, by name:
\*   useNil    DoSomething(123, "Hello GoMock").Return(nil).Times(1)
\*   useErr    DoSomething(123, "Hello GoMock").Return(dummyError).Times(1)
\*   anyStr    DoSomething(gomock.Any(), match.OfType("string")).Return(nil)
\*               .MinTimes(0).MaxTimes(2)
\*   callFirst DoSomething(1, "first this")
\*   callA     DoSomething(2, "then this").After(callFirst)
\*   callB     DoSomething(2, "or this").After(callFirst)
Declaration(item) ==
    CASE item = "useNil" ->
            [nm |-> Eq(IntVal(UseCount)), sm |-> Eq(StrVal(UseLabel)),
             min |-> 1, max |-> 1, ret |-> NilErr, after |-> {}]
      [] item = "useErr" ->
            [nm |-> Eq(IntVal(UseCount)), sm |-> Eq(StrVal(UseLabel)),
             min |-> 1, max |-> 1, ret |-> DummyError, after |-> {}]
      [] item = "anyStr" ->
            [nm |-> Any, sm |-> OfType("string"),
             min |-> 0, max |-> 2, ret |-> NilErr, after |-> {}]
      [] item = "callFirst" ->
            [nm |-> Eq(IntVal(1)), sm |-> Eq(StrVal(FirstThis)),
             min |-> 1, max |-> 1, ret |-> NilErr, after |-> {}]
      [] item = "callA" ->
            [nm |-> Eq(IntVal(2)), sm |-> Eq(StrVal(ThenThis)),
             min |-> 1, max |-> 1, ret |-> NilErr, after |-> {"callFirst"}]
      [] item = "callB" ->
            [nm |-> Eq(IntVal(2)), sm |-> Eq(StrVal(OrThis)),
             min |-> 1, max |-> 1, ret |-> NilErr, after |-> {"callFirst"}]

Items == {"useNil", "useErr", "anyStr", "callFirst", "callA", "callB"}

\* the calls a test makes on the mock directly
DirectCalls == {<<1, FirstThis>>, <<2, ThenThis>>, <<2, OrThis>>}

Declared(es) == {es[i].item : i \in 1..Len(es)}
IndexOf(es, item) == CHOOSE i \in 1..Len(es) : es[i].item = item

(***************************************************************************)
(* The initial state: nothing called, main() not started, the test's       *)
(* controller created with no expectation and no User built.               *)
(***************************************************************************)
NoOp == [op |-> "none", trace |-> <<>>, ret |-> NilErr]

InitRest ==
    /\ mainPc = "printStart"
    /\ mainOut = <<>>
    /\ mainDoer = NoRef
    /\ mainUser = NoUser
    /\ mainErr = NilErr
    /\ user = NoUser
    /\ wired = NoRef
    /\ exps = <<>>
    /\ failed = FALSE
    /\ finished = FALSE
    /\ report = {}
    /\ stdout = <<>>
    /\ nalloc = 0
    /\ ncalls = 0
    /\ last = NoOp

Init ==
    /\ probe = [op |-> "none", called |-> FALSE]
    /\ InitRest

\* the direct call a scenario is about to make, with its arguments
Scenarios ==
    {[op |-> "DoSomething", called |-> FALSE, n |-> n, str |-> str] :
        n \in Counts, str \in Labels}
    \cup {[op |-> "Matches", called |-> FALSE, t |-> t, x |-> x] :
        t \in TypeNames, x \in Values}

InitProgram ==
    /\ probe \in Scenarios
    /\ InitRest

(***************************************************************************)
(* Direct calls of the pure operations (the scenarios that call the real   *)
(* capability and the matcher on their own).                               *)
(***************************************************************************)
CallDoSomething ==
    /\ probe.op = "DoSomething" /\ ~probe.called
    /\ probe' = [op |-> "DoSomething", called |-> TRUE,
                 n |-> probe.n, str |-> probe.str,
                 res |-> DoSomething(probe.n, probe.str, <<"heap", 1>>)]
    /\ UNCHANGED <<mainVars, testVars>>

CallMatches ==
    /\ probe.op = "Matches" /\ ~probe.called
    /\ probe' = [op |-> "Matches", called |-> TRUE,
                 t |-> probe.t, x |-> probe.x,
                 res |-> Matches(NewOfType(probe.t), probe.x)]
    /\ UNCHANGED <<mainVars, testVars>>

(***************************************************************************)
(* main (main.go:9-21), one action per statement.                          *)
(***************************************************************************)
\* the state a call made by main() can change
MainWorld ==
    [exps |-> <<>>, failed |-> FALSE, stdout |-> mainOut, nalloc |-> 0]

\* main.go:10
MainPrintStart ==
    /\ mainPc = "printStart"
    /\ mainOut' = Append(mainOut, StartLine)
    /\ mainPc' = "newDoer"
    /\ UNCHANGED <<probe, mainDoer, mainUser, mainErr, testVars>>

\* main.go:12
MainNewDoer ==
    /\ mainPc = "newDoer"
    /\ mainDoer' = NewDoer
    /\ mainPc' = "newUser"
    /\ UNCHANGED <<probe, mainOut, mainUser, mainErr, testVars>>

\* main.go:13
MainNewUser ==
    /\ mainPc = "newUser"
    /\ mainUser' = NewUser(mainDoer)
    /\ mainPc' = "use"
    /\ UNCHANGED <<probe, mainOut, mainDoer, mainErr, testVars>>

\* main.go:15
MainUse ==
    /\ mainPc = "use"
    /\ LET r == Use(mainUser, MainWorld) IN
        /\ mainErr' = r.ret
        /\ mainOut' = r.w.stdout
        /\ mainUser' = r.u
    /\ mainPc' = "checkErr"
    /\ UNCHANGED <<probe, mainDoer, testVars>>

\* the check of err as it would be with its condition inverted
MainCheckErrInverted ==
    /\ mainPc = "checkErr"
    /\ mainOut' = IF mainErr.kind = "nil" THEN Append(mainOut, mainErr.msg)
                  ELSE mainOut
    /\ mainPc' = "printEnd"
    /\ UNCHANGED <<probe, mainDoer, mainUser, mainErr, testVars>>

\* main.go:16-18
MainCheckErr ==
    /\ mainPc = "checkErr"
    /\ mainOut' = IF mainErr.kind # "nil" THEN Append(mainOut, mainErr.msg)
                  ELSE mainOut
    /\ mainPc' = "printEnd"
    /\ UNCHANGED <<probe, mainDoer, mainUser, mainErr, testVars>>

\* main.go:20-21
MainPrintEnd ==
    /\ mainPc = "printEnd"
    /\ mainOut' = Append(mainOut, EndLine)
    /\ mainPc' = "done"
    /\ UNCHANGED <<probe, mainDoer, mainUser, mainErr, testVars>>

MainNext ==
    \/ MainPrintStart
    \/ MainNewDoer
    \/ MainNewUser
    \/ MainUse
    \/ MainCheckErr
    \/ MainPrintEnd

(***************************************************************************)
(* A test in the README's style: it declares expectations on the mock,     *)
(* builds a User on the real capability or on the mock, calls Use (or the  *)
(* mock directly), and finishes the controller.                            *)
(***************************************************************************)
TestWorld ==
    [exps |-> exps, failed |-> failed, stdout |-> stdout, nalloc |-> nalloc]

\* testUser := NewUser(d)
BuildUser(d) ==
    /\ user = NoUser
    /\ ~finished /\ ~failed
    /\ user' = NewUser(d)
    /\ wired' = d
    /\ UNCHANGED <<probe, mainVars, exps, failed, finished, report, stdout,
                   nalloc, ncalls, last>>

\* mockDoer.EXPECT().DoSomething(...)...: one more declared expectation
Expect(item) ==
    /\ ~finished /\ ~failed
    /\ item \notin Declared(exps)
    /\ Declaration(item).after \subseteq Declared(exps)
    /\ LET d == Declaration(item) IN
        exps' = Append(exps,
                    [item |-> item, nm |-> d.nm, sm |-> d.sm, min |-> d.min,
                     max |-> d.max, ret |-> d.ret,
                     after |-> {IndexOf(exps, a) : a \in d.after},
                     calls |-> 0])
    /\ UNCHANGED <<probe, mainVars, user, wired, failed, finished, report,
                   stdout, nalloc, ncalls, last>>

\* testUser.Use()
CallUse ==
    /\ user # NoUser
    /\ ~finished /\ ~failed
    /\ ncalls < MaxCalls
    /\ LET r == Use(user, TestWorld) IN
        /\ exps' = r.w.exps
        /\ failed' = r.w.failed
        /\ stdout' = r.w.stdout
        /\ nalloc' = r.w.nalloc
        /\ user' = r.u
        /\ last' = [op |-> "Use", trace |-> r.trace, ret |-> r.ret]
    /\ ncalls' = ncalls + 1
    /\ UNCHANGED <<probe, mainVars, wired, finished, report>>

\* mockDoer.DoSomething(n, str), called by the test itself
CallMock(n, str) ==
    /\ ~finished /\ ~failed
    /\ ncalls < MaxCalls
    /\ LET r == Invoke(MockDoer, n, str, TestWorld) IN
        /\ exps' = r.w.exps
        /\ failed' = r.w.failed
        /\ stdout' = r.w.stdout
        /\ nalloc' = r.w.nalloc
        /\ last' = [op |-> "DoSomething", trace |-> <<r.inv>>, ret |-> r.ret]
    /\ ncalls' = ncalls + 1
    /\ UNCHANGED <<probe, mainVars, user, wired, finished, report>>

\* mockCtrl.Finish(), deferred: it runs when the test ends, also after a
\* failure at a call
Finish ==
    /\ ~finished
    /\ finished' = TRUE
    /\ report' = Unmet(exps)
    /\ UNCHANGED <<probe, mainVars, user, wired, exps, failed, stdout, nalloc,
                   ncalls, last>>

(***************************************************************************)
(* Specifications.                                                         *)
(***************************************************************************)
\* the tests: the User on the real capability or on the mock
Next ==
    \/ \E d \in {RealDoer, MockDoer} : BuildUser(d)
    \/ \E item \in Items : Expect(item)
    \/ CallUse
    \/ \E c \in DirectCalls : CallMock(c[1], c[2])
    \/ Finish

Spec == Init /\ [][Next]_vars

\* the program: main(), and direct calls of the real capability and of the
\* matcher.  main() is a sequential program that nothing blocks: each of
\* its statements is eventually executed.
ProgramNext ==
    \/ MainNext
    \/ CallDoSomething
    \/ CallMatches

SpecProgram == InitProgram /\ [][ProgramNext]_vars /\ WF_vars(MainNext)

(***************************************************************************)
(* Decimal numerals, stated on their own: a numeral is an optional "-"     *)
(* followed by digits, without a leading zero (but "0" itself) and without *)
(* "-0"; its value is read left to right.                                  *)
(***************************************************************************)
IsDigit(c) == c \in {"0", "1", "2", "3", "4", "5", "6", "7", "8", "9"}

DigitValue(c) ==
    CASE c = "0" -> 0 [] c = "1" -> 1 [] c = "2" -> 2 [] c = "3" -> 3
      [] c = "4" -> 4 [] c = "5" -> 5 [] c = "6" -> 6 [] c = "7" -> 7
      [] c = "8" -> 8 [] c = "9" -> 9

RECURSIVE ValueOf(_)
ValueOf(ds) ==
    IF ds = <<>> THEN 0
    ELSE 10 * ValueOf(SubSeq(ds, 1, Len(ds) - 1)) + DigitValue(ds[Len(ds)])

IsDecimalOf(str, n) ==
    LET neg == Len(str) > 0 /\ str[1] = "-"
        ds  == IF neg THEN Tail(str) ELSE str
    IN  /\ Len(ds) > 0
        /\ \A i \in 1..Len(ds) : IsDigit(ds[i])
        /\ Len(ds) > 1 => ds[1] # "0"
        /\ ~(neg /\ ds = <<"0">>)
        /\ n = IF neg THEN 0 - ValueOf(ds) ELSE ValueOf(ds)

DirectDoSomething == probe.op = "DoSomething" /\ probe.called
DirectMatches == probe.op = "Matches" /\ probe.called

(***************************************************************************)
(* C1: for every integer n and string str, the real capability's           *)
(* DoSomething(n, str) returns nil if and only if str is the decimal       *)
(* numeral of n, and returns an error in every other case.                 *)
(***************************************************************************)
C1_SuccessIffDecimal ==
    DirectDoSomething =>
        /\ probe.res.err.kind \in {"nil", "error"}
        /\ probe.res.err.kind = "nil" <=> IsDecimalOf(probe.str, probe.n)

\* Scenario A: DoSomething(123, "123") has returned nil
C1_Witness ==
    /\ DirectDoSomething
    /\ probe.n = 123
    /\ probe.str = <<"1", "2", "3">>
    /\ probe.res.err.kind = "nil"

(***************************************************************************)
(* C4: whenever the real capability's DoSomething(n, str) fails, the       *)
(* failure's message is "error: <str> != <n>", the label first and the     *)
(* decimal count second; DoSomething(123, "124") fails with                *)
(* "error: 124 != 123".                                                    *)
(***************************************************************************)
C4_FailureMessage ==
    (DirectDoSomething /\ probe.res.err.kind = "error") =>
        LET m == probe.res.err.msg
            k == Len(probe.str)
        IN  /\ Len(m) > 11 + k
            /\ SubSeq(m, 1, 7) = <<"e", "r", "r", "o", "r", ":", " ">>
            /\ SubSeq(m, 8, 7 + k) = probe.str
            /\ SubSeq(m, 8 + k, 11 + k) = <<" ", "!", "=", " ">>
            /\ IsDecimalOf(SubSeq(m, 12 + k, Len(m)), probe.n)
            /\ (probe.n = 123 /\ probe.str = <<"1", "2", "4">>) =>
                    m = <<"e", "r", "r", "o", "r", ":", " ", "1", "2", "4",
                          " ", "!", "=", " ", "1", "2", "3">>

\* Scenario B: DoSomething(123, "124") has failed
C4_Witness ==
    /\ DirectDoSomething
    /\ probe.n = 123
    /\ probe.str = <<"1", "2", "4">>
    /\ probe.res.err.kind = "error"
    /\ Len(probe.res.err.msg) = 17

(***************************************************************************)
(* C9: for every type name t and every argument x, the matcher built by    *)
(* NewOfType(t) returns a boolean from Matches(x), true if and only if the *)
(* name of x's dynamic type is t; this for every argument, nil included    *)
(* (nil has no dynamic type, so the answer for it is false).               *)
(***************************************************************************)
C9_MatchesIsTotal ==
    DirectMatches =>
        /\ ~probe.res.panicked
        /\ probe.res.value <=>
                (probe.x.type # "<nil>" /\ probe.x.type = probe.t)

\* the message of main's failure, what Use returned, what main printed
C10_Message ==
    <<"e", "r", "r", "o", "r", ":", " ", "H", "e", "l", "l", "o", " ", "G",
      "o", "M", "o", "c", "k", " ", "!", "=", " ", "1", "2", "3">>

C10_UseFailed ==
    mainPc \in {"checkErr", "printEnd", "done"} =>
        mainErr.kind = "error" /\ mainErr.msg = C10_Message

C10_PrintedInOrder ==
    mainPc = "done" =>
        \E i, j \in 1..Len(mainOut) :
            /\ i < j /\ j < Len(mainOut)
            /\ mainOut[i] = <<"s", "t", "a", "r", "t">>
            /\ mainOut[j] = C10_Message
            /\ mainOut[Len(mainOut)] = <<"e", "n", "d">>

(***************************************************************************)
(* C10: every run of main() takes the failure path: Use returns the        *)
(* failure "error: Hello GoMock != 123", never success; that message is    *)
(* printed after "start" and before "end"; and the program reaches "end"   *)
(* and terminates.                                                         *)
(***************************************************************************)
C10_MainTakesFailurePath ==
    /\ [](C10_UseFailed /\ C10_PrintedInOrder)
    /\ <>(mainPc = "done")

\* main() has returned, having printed the four lines
C10_Witness ==
    /\ mainPc = "done"
    /\ Len(mainOut) = 4
    /\ mainOut[3] = C10_Message
    /\ mainErr.kind = "error"

\* the test of the README that has the mock return dummyError, after its Use
C2_ScenarioD ==
    /\ last.op = "Use"
    /\ wired = "MockDoer"
    /\ Len(exps) = 1
    /\ exps[1].item = "useErr"
    /\ ncalls = 1

(***************************************************************************)
(* C2: whatever capability the User holds and whatever outcome that        *)
(* capability returns, Use returns that same outcome: nil stays nil and a  *)
(* failure value is passed through as it is (same error value, same        *)
(* message).  Scenario D: the mock is told to return dummyError for the    *)
(* one call DoSomething(123, "Hello GoMock"); Use returns dummyError.      *)
(***************************************************************************)
C2_UsePassesOutcomeThrough ==
    /\ last.op = "Use" =>
            /\ Len(last.trace) > 0
            /\ last.ret = last.trace[Len(last.trace)].ret
    /\ C2_ScenarioD =>
            /\ last.ret.kind = "error"
            /\ last.ret.addr = <<"test", 1>>
            /\ last.ret.msg =
                  <<"d", "u", "m", "m", "y", " ", "e", "r", "r", "o", "r">>

\* Scenario D has happened: Use has returned the mock's dummyError
C2_Witness ==
    /\ C2_ScenarioD
    /\ last.ret.addr = <<"test", 1>>
    /\ exps[1].calls = 1

(***************************************************************************)
(* C3: each call of Use invokes DoSomething on the held capability exactly *)
(* once, with exactly the arguments (123, "Hello GoMock"), whatever the    *)
(* capability is and whatever it returns: no second call after a failure,  *)
(* no call with other arguments.                                           *)
(***************************************************************************)
C3_UseInvokesOnce ==
    last.op = "Use" =>
        /\ Len(last.trace) = 1
        /\ last.trace[1].recv = user.Doer
        /\ last.trace[1].n = 123
        /\ last.trace[1].str =
              <<"H", "e", "l", "l", "o", " ", "G", "o", "M", "o", "c", "k">>

\* Use on the real capability has failed, a second time
C3_Witness ==
    /\ last.op = "Use"
    /\ wired = "doerImpl"
    /\ ncalls = 2
    /\ last.ret.kind = "error"
    /\ Len(last.trace) = 1

(***************************************************************************)
(* C5: once the User is built by NewUser(d), the capability it holds is d  *)
(* in every state, after any number of Use calls, and every call Use makes *)
(* goes to d.                                                              *)
(***************************************************************************)
C5_HeldCapabilityIsTheWiredOne ==
    /\ user = [Doer |-> "none"] <=> wired = "none"
    /\ user.Doer = wired
    /\ last.op = "Use" =>
            \A k \in 1..Len(last.trace) : last.trace[k].recv = wired

\* the User on the mock, after two calls of Use, the last one failed
C5_Witness ==
    /\ wired = "MockDoer"
    /\ user.Doer = "MockDoer"
    /\ ncalls >= 2
    /\ last.op = "Use"
    /\ last.ret.kind = "error"

\* the tests that finish after one Use on one expectation, and after no call
C6_ScenarioC ==
    /\ finished
    /\ wired = "MockDoer"
    /\ Len(exps) = 1
    /\ exps[1].item \in {"useNil", "useErr"}
    /\ ncalls = 1
    /\ last.op = "Use"

C6_ScenarioE ==
    /\ finished
    /\ Len(exps) = 1
    /\ exps[1].min > 0
    /\ exps[1].calls = 0

(***************************************************************************)
(* C6: at finalization the mock reports exactly the declared expectations  *)
(* whose number of matched calls is outside the declared count.  Scenario  *)
(* C: one expectation of exactly one DoSomething(123, "Hello GoMock"),     *)
(* then one Use: nothing is reported.  Scenario E: one expectation that is *)
(* never invoked: exactly one expectation is reported.                     *)
(***************************************************************************)
C6_FinishReportsUnmet ==
    /\ finished =>
            \A i \in 1..Len(exps) :
                i \in report <=> exps[i].calls \notin exps[i].min .. exps[i].max
    /\ finished => report \subseteq 1..Len(exps)
    /\ C6_ScenarioC => report = {} /\ ~failed
    /\ C6_ScenarioE => Cardinality(report) = 1

\* Scenario C has happened
C6_Witness ==
    /\ C6_ScenarioC
    /\ exps[1].calls = 1
    /\ report = {}

\* a call that no expectation can take, and the step in which the mock is called
C7_NoEligibleMatch(es, n, str) ==
    ~ \E i \in 1..Len(es) :
        /\ es[i].calls < es[i].max
        /\ \A j \in es[i].after : es[j].calls >= es[j].min
        /\ MatcherAccepts(es[i].nm, IntVal(n))
        /\ MatcherAccepts(es[i].sm, StrVal(str))

C7_CallOnMock ==
    /\ ncalls' = ncalls + 1
    /\ Len(last'.trace) > 0
    /\ last'.trace[1].recv = "MockDoer"

(***************************************************************************)
(* C7: when the mock receives a call for which no declared, not yet        *)
(* exhausted, order-eligible expectation has all its matchers satisfied,   *)
(* it fails the test at that call, before finalization; the call is not    *)
(* counted for any expectation and gets no canned outcome.                 *)
(***************************************************************************)
C7_UnmatchedCallFailsAtOnce ==
    [][(C7_CallOnMock
            /\ C7_NoEligibleMatch(exps, last'.trace[1].n, last'.trace[1].str))
        => /\ failed'
           /\ ~finished'
           /\ exps' = exps
           /\ last'.trace[1].ret.kind = "abort"
           /\ last'.ret.kind = "abort"]_vars

\* a call has failed the test while an expectation was declared, before
\* finalization
C7_Witness ==
    /\ failed
    /\ ~finished
    /\ Len(exps) > 0
    /\ last.ret.kind = "abort"

\* a step matches a call only to an expectation whose prerequisites are
\* satisfied; callA and callB are matched only after callFirst was
C8_MatchedOnlyAfterPrerequisites ==
    \A i \in 1..Len(exps) :
        exps'[i].calls > exps[i].calls =>
            \A j \in exps[i].after : exps[j].calls >= exps[j].min

C8_FirstBeforeAOrB ==
    \A i \in 1..Len(exps) :
        (exps[i].item \in {"callA", "callB"} /\ exps[i].calls > 0) =>
            \E j \in 1..Len(exps) :
                exps[j].item = "callFirst" /\ exps[j].calls > 0

(***************************************************************************)
(* C8: when expectation B is declared After expectation A, a call is       *)
(* matched to B only once A is satisfied; with callA and callB both        *)
(* declared After callFirst, callFirst occurs before either of them.       *)
(***************************************************************************)
C8_AfterIsRespected ==
    /\ [][C8_MatchedOnlyAfterPrerequisites]_vars
    /\ []C8_FirstBeforeAOrB

\* callFirst, then callA, with callB declared too
C8_Witness ==
    /\ Declared(exps) = {"callFirst", "callA", "callB"}
    /\ \E i \in 1..Len(exps) : exps[i].item = "callA" /\ exps[i].calls = 1
    /\ \E i \in 1..Len(exps) : exps[i].item = "callB" /\ exps[i].calls = 0

====
